---- MODULE Spec2Model ----
(***************************************************************************)
(* YogaFlow Lite: the sequence-position manager (sequence-poses.service)   *)
(* over the sequence_poses table of the initial schema migration.          *)
(*                                                                         *)
(* Every awaited store call of addPoseToSequence, updateSequencePose and   *)
(* removeSequencePose is one step (ServiceStep) of the calling request.    *)
(* Spec runs each request to its end before the next begins; SpecFault     *)
(* does the same with a store call that may fail; SpecConc interleaves     *)
(* two requests on one sequence at their store calls, SpecPar two requests *)
(* on different sequences.  SpecService calls the service without the      *)
(* handlers' body schemas in front; SpecVersion lets the catalog publish   *)
(* new pose versions between the requests; SpecLayers is the build with   *)
(* one of the two authorization layers taken out; SpecRoundTrip removes    *)
(* the entry an Insert has just created.  The store keeps the schema's     *)
(* unique (sequence_id, position) constraint and its row-level policies.   *)
(* SpecRate is the AI-generation rate limiter (rate-limiter.ts), SpecAi    *)
(* the mock sequence generator (ai-generation.service.ts).                 *)
(***************************************************************************)
EXTENDS Integers, Sequences, FiniteSets, TLC

\* Number of entry ids (uuids) the store hands out in one behaviour.
MaxIds == 4

\* Number of store calls that fail on the store's side in one behaviour.
MaxFaults == 1

\* Number of rows of pose_versions in one behaviour.
MaxVersions == 4

\* Ticks of the clock in one rate-limit window.
WindowTicks == 2

\* Last tick of the clock, and number of check() calls, in one behaviour.
MaxTime == 3
MaxChecks == 7

\* Number of catalog poses a generation's query can match.
MaxCatalog == 8

\* JavaScript `undefined` for an optional number of a command.
UNDEFINED == 0 - 1

\* Concurrent requests (handler invocations).
Procs == {1, 2}

\* Authenticated users; NoUser is a request without a session.
Users == {"u1", "u2"}
NoUser == "anon"

\* Table sequences: both sequences belong to u1; "s3" names no row.
sequences ==
    { [id |-> "s1", user_id |-> "u1"], [id |-> "s2", user_id |-> "u1"] }
SequenceIds == {"s1", "s2", "s3"}

\* Table poses as seeded: p1 has a current version, p2 has none; "p3"
\* names no row.
NoVersion == "null"
SeedPoses ==
    { [id |-> "p1", current_version_id |-> "v2"],
      [id |-> "p2", current_version_id |-> NoVersion] }
PoseIds == {"p1", "p2", "p3"}

\* Table pose_versions as seeded: unique (pose_id, version).
SeedPoseVersions ==
    { [id |-> "v1", pose_id |-> "p1", version |-> 1],
      [id |-> "v2", pose_id |-> "p1", version |-> 2] }

EntryIds == 1..MaxIds

VARIABLES
    sequence_poses,  \* table sequence_poses: the set of its rows
    nextId,          \* next entry id the store generates
    proc,            \* per request: arguments, locals, position in the code, outcome
    faults,          \* store calls that have failed on the store's side
    poses,           \* table poses: id and current_version_id of each row
    pose_versions,   \* table pose_versions: the set of its rows
    disabled,        \* the authorization layer taken out of the build, if any
    requests,        \* RateLimiter.requests: the timestamps kept for each user
    now,             \* Date.now(), in ticks
    calls,           \* the check() calls made so far, each with its answer
    generated        \* what the last generateMockSequence call returned or threw

\* What no request of the sequence-position manager changes.
aside == <<disabled, requests, now, calls, generated>>

vars == <<sequence_poses, nextId, proc, faults, poses, pose_versions, aside>>

\* The build as written: both authorization layers in place.
AsWritten == disabled = "none"

\* new RateLimiter(..): no user has a timestamp.
LimiterInit ==
    /\ requests = [u \in Users |-> <<>>]
    /\ now = 0
    /\ calls = <<>>

\* The services beside the sequence-position manager, as constructed.
Beside == LimiterInit /\ generated = [status |-> "none"]

----------------------------------------------------------------------------
(* The store.                                                              *)

\* Row-level security on sequence_poses: a row is accessible when its
\* parent sequence belongs to auth.uid().
OwnsSequence(uid, sequenceId) ==
    \E s \in sequences : s.id = sequenceId /\ s.user_id = uid

\* Mutant of RlsRows: every row is accessible to everybody.
RlsRowsOpen(rows, uid) == rows

\* The rows the policies using (..) let uid select, update and delete.
RlsRows(rows, uid) ==
    IF disabled = "rls" THEN rows
    ELSE {r \in rows : OwnsSequence(uid, r.sequence_id)}

\* Mutant of SelectSequence: the row is selected by id alone.
SelectSequenceAnyOwner(uid, sequenceId, userId) ==
    {s \in sequences : s.id = sequenceId}

\* select id, user_id from sequences where id = .. and user_id = ..
\* under the policy select_own_sequences.
SelectSequence(uid, sequenceId, userId) ==
    {s \in sequences : /\ s.id = sequenceId /\ s.user_id = userId
                       /\ (disabled = "rls" \/ s.user_id = uid)}

SetMax(S) == CHOOSE x \in S : \A y \in S : y <= x
SetMin(S) == CHOOSE x \in S : \A y \in S : x <= y

\* .order("position", {ascending}) of a set of rows; rows of one sequence
\* have distinct positions (unique_sequence_position).
RECURSIVE OrderByPosition(_, _)
OrderByPosition(rows, ascending) ==
    IF rows = {} THEN <<>>
    ELSE LET ps == {r.position : r \in rows}
             p  == IF ascending THEN SetMin(ps) ELSE SetMax(ps)
             r  == CHOOSE x \in rows : x.position = p
         IN  <<[id |-> r.id, position |-> r.position]>>
             \o OrderByPosition(rows \ {r}, ascending)

\* unique_sequence_position: would row `id` at (sequenceId, position) collide?
UniqueViolation(rows, id, sequenceId, position) ==
    \E r \in rows : r.id # id /\ r.sequence_id = sequenceId /\ r.position = position

StoreOk == "ok"
UniqueError == "23505"
RlsError == "42501"
NoRowsError == "PGRST116"
StoreFault == "STORE_ERROR"

\* Mutant of UpdatePosition: the write also refreshes the row's version to
\* the pose's current one.
UpdatePositionAndVersion(rows, uid, id, position) ==
    LET hit == {r \in RlsRows(rows, uid) : r.id = id}
    IN  IF hit = {} THEN [rows |-> rows, error |-> StoreOk]
        ELSE LET r == CHOOSE x \in hit : TRUE
                 q == CHOOSE x \in poses : x.id = r.pose_id
             IN  IF UniqueViolation(rows, id, r.sequence_id, position)
                 THEN [rows |-> rows, error |-> UniqueError]
                 ELSE [rows |-> (rows \ {r}) \cup
                                   {[r EXCEPT !.position = position,
                                              !.pose_version_id = q.current_version_id]},
                       error |-> StoreOk]

\* update sequence_poses set position = .. where id = ..
\* A missing (or inaccessible) row is an update of zero rows, not an error.
UpdatePosition(rows, uid, id, position) ==
    LET hit == {r \in RlsRows(rows, uid) : r.id = id}
    IN  IF hit = {} THEN [rows |-> rows, error |-> StoreOk]
        ELSE LET r == CHOOSE x \in hit : TRUE
             IN  IF UniqueViolation(rows, id, r.sequence_id, position)
                 THEN [rows |-> rows, error |-> UniqueError]
                 ELSE [rows |-> (rows \ {r}) \cup {[r EXCEPT !.position = position]},
                       error |-> StoreOk]

\* insert into sequence_poses (..) values (..)
InsertRowInto(rows, uid, row) ==
    IF disabled # "rls" /\ ~OwnsSequence(uid, row.sequence_id)
    THEN [rows |-> rows, error |-> RlsError]
    ELSE IF UniqueViolation(rows, row.id, row.sequence_id, row.position)
    THEN [rows |-> rows, error |-> UniqueError]
    ELSE [rows |-> rows \cup {row}, error |-> StoreOk]

\* delete from sequence_poses where id = ..
DeleteRow(rows, uid, id) ==
    rows \ {r \in RlsRows(rows, uid) : r.id = id}

----------------------------------------------------------------------------
(* Pure parts of the service.                                              *)

\* Mutant of getNextPosition: one slot past the append slot.
getNextPositionSkipsOne(rows, uid, sequenceId) ==
    LET ps == {r.position : r \in {x \in RlsRows(rows, uid) : x.sequence_id = sequenceId}}
    IN  IF ps = {} THEN 1 ELSE SetMax(ps) + 2

\* getNextPosition: highest position of the sequence plus one, or 1.
getNextPosition(rows, uid, sequenceId) ==
    LET ps == {r.position : r \in {x \in RlsRows(rows, uid) : x.sequence_id = sequenceId}}
    IN  IF ps = {} THEN 1 ELSE SetMax(ps) + 1

\* Mutant of resolvePoseVersion: the version number is not looked at.
resolvePoseVersionCurrent(poseId, version) ==
    LET poseData == {q \in poses : q.id = poseId}
    IN  IF poseData = {} \/ (CHOOSE q \in poseData : TRUE).current_version_id = NoVersion
        THEN [error |-> "POSE_NOT_FOUND", id |-> NoVersion]
        ELSE [error |-> StoreOk, id |-> (CHOOSE q \in poseData : TRUE).current_version_id]

\* resolvePoseVersion: the version id, or the error it throws.
resolvePoseVersion(poseId, version) ==
    IF version # UNDEFINED
    THEN LET data == {v \in pose_versions : v.pose_id = poseId /\ v.version = version}
         IN  IF data = {} THEN [error |-> "POSE_VERSION_NOT_FOUND", id |-> NoVersion]
             ELSE [error |-> StoreOk, id |-> (CHOOSE v \in data : TRUE).id]
    ELSE LET poseData == {q \in poses : q.id = poseId}
         IN  IF poseData = {} \/ (CHOOSE q \in poseData : TRUE).current_version_id = NoVersion
             THEN [error |-> "POSE_NOT_FOUND", id |-> NoVersion]
             ELSE [error |-> StoreOk, id |-> (CHOOSE q \in poseData : TRUE).current_version_id]

\* Mutant of shiftPositionsUpSelect: the filter on sequence_id is missing.
shiftPositionsUpAnySequence(rows, uid, sequenceId, fromPosition) ==
    OrderByPosition({r \in RlsRows(rows, uid) : r.position >= fromPosition}, FALSE)

\* Mutant of shiftPositionsUpSelect: the rows come in ascending order.
shiftPositionsUpAscending(rows, uid, sequenceId, fromPosition) ==
    OrderByPosition({r \in RlsRows(rows, uid) :
                        r.sequence_id = sequenceId /\ r.position >= fromPosition}, TRUE)

\* shiftPositionsUp's select: rows at or after fromPosition, descending.
shiftPositionsUpSelect(rows, uid, sequenceId, fromPosition) ==
    OrderByPosition({r \in RlsRows(rows, uid) :
                        r.sequence_id = sequenceId /\ r.position >= fromPosition}, FALSE)

\* Mutant of shiftPositionsDownSelect: no row is selected, so that the gap
\* a delete leaves is never closed.
shiftPositionsDownNothing(rows, uid, sequenceId, fromPosition) == <<>>

\* shiftPositionsDown's select: rows after fromPosition, ascending.
shiftPositionsDownSelect(rows, uid, sequenceId, fromPosition) ==
    OrderByPosition({r \in RlsRows(rows, uid) :
                        r.sequence_id = sequenceId /\ r.position > fromPosition}, TRUE)

\* updateSequencePose, newPosition > oldPosition: rows in (old, new], ascending.
moveLaterSelect(rows, uid, sequenceId, oldPosition, newPosition) ==
    OrderByPosition({r \in RlsRows(rows, uid) :
                        /\ r.sequence_id = sequenceId
                        /\ r.position > oldPosition
                        /\ r.position <= newPosition}, TRUE)

\* updateSequencePose, newPosition < oldPosition: rows in [new, old), descending.
moveEarlierSelect(rows, uid, sequenceId, oldPosition, newPosition) ==
    OrderByPosition({r \in RlsRows(rows, uid) :
                        /\ r.sequence_id = sequenceId
                        /\ r.position >= newPosition
                        /\ r.position < oldPosition}, FALSE)

\* zod schemas of the request bodies (.int().positive().optional()).
addPoseToSequenceSchema(cmd) ==
    /\ cmd.poseVersion = UNDEFINED \/ cmd.poseVersion > 0
    /\ cmd.position = UNDEFINED \/ cmd.position > 0

updateSequencePoseSchema(cmd) ==
    /\ cmd.position = UNDEFINED \/ cmd.position > 0
    /\ cmd.position # UNDEFINED \/ cmd.extra

----------------------------------------------------------------------------
(* Requests.                                                               *)

OpNone ==
    [kind |-> "none", user |-> NoUser, sequenceId |-> "s3", sequencePoseId |-> 0,
     poseId |-> "p3", poseVersion |-> UNDEFINED, position |-> UNDEFINED, extra |-> FALSE]

\* A request: pc is the store call it is about to make, op the arguments of
\* the call, result its outcome, pre the table when it began, nwrites the
\* store writes it has issued, failedCall the store call that failed on the
\* store's side; the rest are the service's local variables.
ProcNone ==
    [pc |-> "idle", op |-> OpNone, result |-> "none", pre |-> {}, nwrites |-> 0,
     failedCall |-> "none",
     poseVersionId |-> NoVersion, position |-> UNDEFINED, maxPosition |-> UNDEFINED,
     oldPosition |-> UNDEFINED, posesToShift |-> <<>>, newId |-> 0]

\* POST /sequences/{sequenceId}/poses
InsertRequests(callers, poseArgs, positions) ==
    { [OpNone EXCEPT !.kind = "insert", !.user = c[1], !.sequenceId = c[2],
                     !.poseId = a[1], !.poseVersion = a[2], !.position = n] :
        c \in callers, a \in poseArgs, n \in positions }

\* PATCH /sequences/{sequenceId}/poses/{sequencePoseId}
MoveRequests(callers, positions, extras) ==
    { [OpNone EXCEPT !.kind = "move", !.user = c[1], !.sequenceId = c[2],
                     !.sequencePoseId = e, !.position = n, !.extra = x] :
        c \in callers, e \in EntryIds, n \in positions, x \in extras }

\* DELETE /sequences/{sequenceId}/poses/{sequencePoseId}
RemoveRequests(callers) ==
    { [OpNone EXCEPT !.kind = "remove", !.user = c[1], !.sequenceId = c[2],
                     !.sequencePoseId = e] :
        c \in callers, e \in EntryIds }

\* A world: the store and one request's state.  Every step of the service
\* maps a world to a world.
World(rows, id, pr) == [rows |-> rows, nextId |-> id, pr |-> pr]

\* The service call ends (returns or throws) with outcome res.
Done(w, res) == [w EXCEPT !.pr.pc = "done", !.pr.result = res]

To(w, label) == [w EXCEPT !.pr.pc = label]

\* `label` is where the call continues; "done" is a normal return.
After(w, label) == IF label = "done" THEN Done(w, "OK") ELSE To(w, label)

\* The handlers up to the service call: session check, then body schema.
Handle(rows, request) ==
    LET pr == [ProcNone EXCEPT !.op = request, !.pre = rows]
        schemaOk == CASE request.kind = "insert" -> addPoseToSequenceSchema(request)
                      [] request.kind = "move" -> updateSequencePoseSchema(request)
                      [] OTHER -> TRUE
    IN  IF request.user = NoUser
        THEN [pr EXCEPT !.pc = "done", !.result = "UNAUTHORIZED"]
        ELSE IF ~schemaOk
        THEN [pr EXCEPT !.pc = "done", !.result = "VALIDATION_ERROR"]
        ELSE [pr EXCEPT !.pc = "verify"]

\* POST: the response the handler sends for an outcome of the request.
PostResponse(result) ==
    CASE result = "OK" -> [status |-> 201, code |-> "OK"]
      [] result = "UNAUTHORIZED" -> [status |-> 401, code |-> "UNAUTHORIZED"]
      [] result = "VALIDATION_ERROR" -> [status |-> 400, code |-> "VALIDATION_ERROR"]
      [] result = "SEQUENCE_NOT_FOUND" -> [status |-> 404, code |-> "SEQUENCE_NOT_FOUND"]
      [] result = "POSE_NOT_FOUND" -> [status |-> 400, code |-> "POSE_NOT_FOUND"]
      [] result = "POSE_VERSION_NOT_FOUND" ->
            [status |-> 400, code |-> "POSE_VERSION_NOT_FOUND"]
      [] result = "INVALID_POSITION" -> [status |-> 400, code |-> "INVALID_POSITION"]
      [] OTHER -> [status |-> 500, code |-> "INTERNAL_ERROR"]

\* DELETE: the response the handler sends for an outcome of the request.
DeleteResponse(result) ==
    CASE result = "OK" -> [status |-> 204, code |-> "OK"]
      [] result = "UNAUTHORIZED" -> [status |-> 401, code |-> "UNAUTHORIZED"]
      [] result = "VALIDATION_ERROR" -> [status |-> 400, code |-> "VALIDATION_ERROR"]
      [] result = "SEQUENCE_NOT_FOUND" -> [status |-> 404, code |-> "SEQUENCE_NOT_FOUND"]
      [] result = "SEQUENCE_POSE_NOT_FOUND" ->
            [status |-> 404, code |-> "SEQUENCE_POSE_NOT_FOUND"]
      [] OTHER -> [status |-> 500, code |-> "INTERNAL_ERROR"]

\* Mutant of PatchResponse: only success and the 401 are told apart, every
\* error of the service is answered by the generic branch.
PatchResponseGeneric(result) ==
    CASE result = "OK" -> [status |-> 200, code |-> "OK"]
      [] result = "UNAUTHORIZED" -> [status |-> 401, code |-> "UNAUTHORIZED"]
      [] result = "VALIDATION_ERROR" -> [status |-> 400, code |-> "VALIDATION_ERROR"]
      [] OTHER -> [status |-> 500, code |-> "INTERNAL_ERROR"]

\* PATCH: the response the handler sends for an outcome of the request.
PatchResponse(result) ==
    CASE result = "OK" -> [status |-> 200, code |-> "OK"]
      [] result = "UNAUTHORIZED" -> [status |-> 401, code |-> "UNAUTHORIZED"]
      [] result = "VALIDATION_ERROR" -> [status |-> 400, code |-> "VALIDATION_ERROR"]
      [] result = "SEQUENCE_NOT_FOUND" -> [status |-> 404, code |-> "SEQUENCE_NOT_FOUND"]
      [] result = "SEQUENCE_POSE_NOT_FOUND" ->
            [status |-> 404, code |-> "SEQUENCE_POSE_NOT_FOUND"]
      [] result = "INVALID_POSITION" -> [status |-> 400, code |-> "INVALID_POSITION"]
      [] result = "DURATION_AND_INSTRUCTIONS_NOT_SUPPORTED" ->
            [status |-> 400, code |-> "FEATURE_NOT_SUPPORTED"]
      [] OTHER -> [status |-> 500, code |-> "INTERNAL_ERROR"]

\* The response to a request of the given kind.
Response(kind, result) ==
    CASE kind = "insert" -> PostResponse(result)
      [] kind = "move" -> PatchResponse(result)
      [] OTHER -> DeleteResponse(result)

----------------------------------------------------------------------------
(* Steps shared by the three service calls.                                *)

verifySequenceOwnership(w) ==
    LET o == w.pr.op
    IN  IF disabled # "query" /\ SelectSequence(o.user, o.sequenceId, o.user) = {}
        THEN Done(w, "SEQUENCE_NOT_FOUND")
        ELSE To(w, CASE o.kind = "insert" -> "a_resolve"
                     [] o.kind = "move" -> "u_existing"
                     [] OTHER -> "r_existing")

\* The select that precedes a shift loop.
ShiftFetch(w, posesToShift, loop, after) ==
    LET v == [w EXCEPT !.pr.posesToShift = posesToShift]
    IN  IF posesToShift = <<>> THEN After(v, after) ELSE To(v, loop)

\* One iteration of a shift loop: the row read earlier is written at its
\* position as read, plus delta; a store error ends the call.
ShiftWrite(w, delta, loop, after) ==
    LET pose == Head(w.pr.posesToShift)
        rest == Tail(w.pr.posesToShift)
        u    == UpdatePosition(w.rows, w.pr.op.user, pose.id, pose.position + delta)
        v    == [w EXCEPT !.pr.nwrites = @ + 1]
    IN  IF u.error # StoreOk THEN Done(v, u.error)
        ELSE LET x == [v EXCEPT !.rows = u.rows, !.pr.posesToShift = rest]
             IN  IF rest = <<>> THEN After(x, after) ELSE To(x, loop)

\* Mutant of JoinedPose: the join comes back empty.
JoinedPoseMissing(poseId) == {}

\* The poses(...) join of fetchSequencePoseDto's select.
JoinedPose(poseId) == {q \in poses : q.id = poseId}

fetchSequencePoseDto(w) ==
    LET o    == w.pr.op
        id   == IF o.kind = "insert" THEN w.pr.newId ELSE o.sequencePoseId
        data == {r \in RlsRows(w.rows, o.user) : r.id = id}
    IN  IF data = {} THEN Done(w, NoRowsError)
        ELSE IF JoinedPose((CHOOSE r \in data : TRUE).pose_id) = {}
        THEN Done(w, "SEQUENCE_POSE_NOT_FOUND")
        ELSE Done(w, "OK")

\* Mutant of SelectExistingPose: the filter on sequence_id is missing.
SelectExistingPoseAnySequence(rows, uid, sequencePoseId, sequenceId) ==
    {r \in RlsRows(rows, uid) : r.id = sequencePoseId}

\* select id, position from sequence_poses where id = .. and sequence_id = ..
SelectExistingPose(rows, uid, sequencePoseId, sequenceId) ==
    {r \in RlsRows(rows, uid) : r.id = sequencePoseId /\ r.sequence_id = sequenceId}

----------------------------------------------------------------------------
(* addPoseToSequence.                                                      *)

InsertResolve(w) ==
    LET o == w.pr.op
        r == resolvePoseVersion(o.poseId, o.poseVersion)
    IN  IF r.error # StoreOk THEN Done(w, r.error)
        ELSE IF o.position = UNDEFINED
        THEN To([w EXCEPT !.pr.poseVersionId = r.id], "a_append")
        ELSE To([w EXCEPT !.pr.poseVersionId = r.id, !.pr.position = o.position],
                "a_validate")

InsertAppendPosition(w) ==
    To([w EXCEPT !.pr.position = getNextPosition(w.rows, w.pr.op.user, w.pr.op.sequenceId)],
       "a_validate")

\* Mutant of InsertPositionInvalid: the bound is one slot too far.
InsertPositionInvalidOffByOne(position, maxPosition) == position > maxPosition + 1

\* Mutant of InsertPositionInvalid: no upper bound on the position.
InsertPositionUnchecked(position, maxPosition) == FALSE

\* The bound of an insert position, given the append slot maxPosition.
InsertPositionInvalid(position, maxPosition) == position > maxPosition

\* if (command.position !== undefined && command.position < maxPosition)
InsertNeedsShift(commandPosition, maxPosition) ==
    commandPosition # UNDEFINED /\ commandPosition < maxPosition

InsertValidate(w) ==
    LET o == w.pr.op
        maxPosition == getNextPosition(w.rows, o.user, o.sequenceId)
        v == [w EXCEPT !.pr.maxPosition = maxPosition]
    IN  IF InsertPositionInvalid(w.pr.position, maxPosition)
        THEN Done(v, "INVALID_POSITION")
        ELSE IF InsertNeedsShift(o.position, maxPosition)
        THEN To(v, "a_shiftfetch")
        ELSE To(v, "a_insert")

shiftPositionsUpFetch(w) ==
    ShiftFetch(w, shiftPositionsUpSelect(w.rows, w.pr.op.user, w.pr.op.sequenceId,
                                         w.pr.op.position),
               "a_shiftwrite", "a_insert")

\* Mutant of shiftPositionsUpWrite: a row is moved two positions up.
shiftPositionsUpWriteByTwo(w) == ShiftWrite(w, 2, "a_shiftwrite", "a_insert")

shiftPositionsUpWrite(w) == ShiftWrite(w, 1, "a_shiftwrite", "a_insert")

InsertRow(w) ==
    LET o   == w.pr.op
        row == [id |-> w.nextId, sequence_id |-> o.sequenceId, pose_id |-> o.poseId,
                pose_version_id |-> w.pr.poseVersionId, position |-> w.pr.position]
        u   == InsertRowInto(w.rows, o.user, row)
        v   == [w EXCEPT !.pr.nwrites = @ + 1]
    IN  IF u.error # StoreOk THEN Done(v, u.error)
        ELSE To([v EXCEPT !.rows = u.rows, !.nextId = @ + 1, !.pr.newId = row.id],
                "fetchdto")

----------------------------------------------------------------------------
(* updateSequencePose.                                                     *)

\* Mutant of MovePositionInvalid: the range an insert accepts.
MovePositionInvalidAsInsert(position, maxPosition) ==
    position < 1 \/ position > maxPosition

\* The range check of a move to a position other than the current one.
MovePositionInvalid(position, maxPosition) ==
    position < 1 \/ position >= maxPosition

\* Mutant of MoveChangesPosition: the current position is not compared.
MoveChangesPositionAlways(commandPosition, existingPosition) ==
    commandPosition # UNDEFINED

\* if (command.position !== undefined && command.position !== existingPose.position)
MoveChangesPosition(commandPosition, existingPosition) ==
    commandPosition # UNDEFINED /\ commandPosition # existingPosition

\* Mutant of UnsupportedFields: duration and instructions are ignored.
UnsupportedFieldsIgnored(command) == FALSE

\* if (command.duration !== undefined || command.instructions !== undefined)
UnsupportedFields(command) == command.extra

\* Mutant of MoveExisting: the unsupported fields are looked at before the
\* entry is looked up.
MoveExistingFieldsFirst(w) ==
    LET o == w.pr.op
        existingPose == SelectExistingPose(w.rows, o.user, o.sequencePoseId, o.sequenceId)
    IN  IF UnsupportedFields(o) THEN Done(w, "DURATION_AND_INSTRUCTIONS_NOT_SUPPORTED")
        ELSE IF existingPose = {} THEN Done(w, "SEQUENCE_POSE_NOT_FOUND")
        ELSE LET position == (CHOOSE r \in existingPose : TRUE).position
                 v == [w EXCEPT !.pr.oldPosition = position]
             IN  IF MoveChangesPosition(o.position, position)
                 THEN To(v, "u_validate")
                 ELSE To(v, "fetchdto")

MoveExisting(w) ==
    LET o == w.pr.op
        existingPose == SelectExistingPose(w.rows, o.user, o.sequencePoseId, o.sequenceId)
    IN  IF existingPose = {} THEN Done(w, "SEQUENCE_POSE_NOT_FOUND")
        ELSE IF UnsupportedFields(o) THEN Done(w, "DURATION_AND_INSTRUCTIONS_NOT_SUPPORTED")
        ELSE LET position == (CHOOSE r \in existingPose : TRUE).position
                 v == [w EXCEPT !.pr.oldPosition = position]
             IN  IF MoveChangesPosition(o.position, position)
                 THEN To(v, "u_validate")
                 ELSE To(v, "fetchdto")

MoveValidate(w) ==
    LET o == w.pr.op
        maxPosition == getNextPosition(w.rows, o.user, o.sequenceId)
        v == [w EXCEPT !.pr.maxPosition = maxPosition]
    IN  IF MovePositionInvalid(o.position, maxPosition)
        THEN Done(v, "INVALID_POSITION")
        ELSE To(v, "u_shiftfetch")

MoveShiftFetch(w) ==
    LET o == w.pr.op
    IN  ShiftFetch(w,
                   IF o.position > w.pr.oldPosition
                   THEN moveLaterSelect(w.rows, o.user, o.sequenceId,
                                        w.pr.oldPosition, o.position)
                   ELSE moveEarlierSelect(w.rows, o.user, o.sequenceId,
                                          w.pr.oldPosition, o.position),
                   "u_shiftwrite", "u_settarget")

MoveShiftWrite(w) ==
    ShiftWrite(w, IF w.pr.op.position > w.pr.oldPosition THEN 0 - 1 ELSE 1,
               "u_shiftwrite", "u_settarget")

MoveSetTarget(w) ==
    LET o == w.pr.op
        u == UpdatePosition(w.rows, o.user, o.sequencePoseId, o.position)
        v == [w EXCEPT !.pr.nwrites = @ + 1]
    IN  IF u.error # StoreOk THEN Done(v, u.error)
        ELSE To([v EXCEPT !.rows = u.rows], "fetchdto")

----------------------------------------------------------------------------
(* removeSequencePose.                                                     *)

RemoveExisting(w) ==
    LET o == w.pr.op
        existingPose == SelectExistingPose(w.rows, o.user, o.sequencePoseId, o.sequenceId)
    IN  IF existingPose = {} THEN Done(w, "SEQUENCE_POSE_NOT_FOUND")
        ELSE To([w EXCEPT !.pr.oldPosition = (CHOOSE r \in existingPose : TRUE).position],
                "r_delete")

RemoveDelete(w) ==
    To([w EXCEPT !.rows = DeleteRow(w.rows, w.pr.op.user, w.pr.op.sequencePoseId),
                 !.pr.nwrites = @ + 1],
       "r_shiftfetch")

shiftPositionsDownFetch(w) ==
    ShiftFetch(w, shiftPositionsDownSelect(w.rows, w.pr.op.user, w.pr.op.sequenceId,
                                           w.pr.oldPosition),
               "r_shiftwrite", "done")

shiftPositionsDownWrite(w) == ShiftWrite(w, 0 - 1, "r_shiftwrite", "done")

----------------------------------------------------------------------------
(* Running a request.                                                      *)

\* The next store call of the request, with what the service does with its
\* answer up to the following store call.
ServiceStep(w) ==
    CASE w.pr.pc = "verify"       -> verifySequenceOwnership(w)
      [] w.pr.pc = "a_resolve"    -> InsertResolve(w)
      [] w.pr.pc = "a_append"     -> InsertAppendPosition(w)
      [] w.pr.pc = "a_validate"   -> InsertValidate(w)
      [] w.pr.pc = "a_shiftfetch" -> shiftPositionsUpFetch(w)
      [] w.pr.pc = "a_shiftwrite" -> shiftPositionsUpWrite(w)
      [] w.pr.pc = "a_insert"     -> InsertRow(w)
      [] w.pr.pc = "fetchdto"     -> fetchSequencePoseDto(w)
      [] w.pr.pc = "u_existing"   -> MoveExisting(w)
      [] w.pr.pc = "u_validate"   -> MoveValidate(w)
      [] w.pr.pc = "u_shiftfetch" -> MoveShiftFetch(w)
      [] w.pr.pc = "u_shiftwrite" -> MoveShiftWrite(w)
      [] w.pr.pc = "u_settarget"  -> MoveSetTarget(w)
      [] w.pr.pc = "r_existing"   -> RemoveExisting(w)
      [] w.pr.pc = "r_delete"     -> RemoveDelete(w)
      [] w.pr.pc = "r_shiftfetch" -> shiftPositionsDownFetch(w)
      [] w.pr.pc = "r_shiftwrite" -> shiftPositionsDownWrite(w)
      [] OTHER -> w

\* The request run to its end.  failAt numbers the store call that returns
\* an error of its own (connection lost, statement timeout), which the
\* service rethrows; 0 is a run in which no call does.
RECURSIVE Run(_, _)

\* Mutant of OnStoreError: the failed call is issued again, and succeeds.
OnStoreErrorRetried(w, error) == Run([w EXCEPT !.pr.failedCall = w.pr.pc], 0)

\* if (error) throw error: the call the request is at has returned an error.
OnStoreError(w, error) == Done([w EXCEPT !.pr.failedCall = w.pr.pc], error)

Run(w, failAt) ==
    IF w.pr.pc = "done" THEN w
    ELSE IF failAt = 1 THEN OnStoreError(w, StoreFault)
    ELSE Run(ServiceStep(w), IF failAt = 0 THEN 0 ELSE failAt - 1)

----------------------------------------------------------------------------
(* Specifications.                                                         *)

Init ==
    /\ sequence_poses = {}
    /\ nextId = 1
    /\ proc = [p \in Procs |-> ProcNone]
    /\ faults = 0
    /\ poses = SeedPoses
    /\ pose_versions = SeedPoseVersions
    /\ AsWritten
    /\ Beside

\* The store and request p take the values of world w.
Commit(p, w) ==
    /\ sequence_poses' = w.rows
    /\ nextId' = w.nextId
    /\ proc' = [proc EXCEPT ![p] = w.pr]
    /\ UNCHANGED <<poses, pose_versions, aside>>

Begun(request) == World(sequence_poses, nextId, Handle(sequence_poses, request))

\* Arguments of the requests.
Callers == (Users \X SequenceIds) \cup {<<NoUser, "s1">>}
PoseArgs == {<<"p1", UNDEFINED>>, <<"p1", 3>>, <<"p2", UNDEFINED>>,
             <<"p3", UNDEFINED>>, <<"p3", 1>>}
Positions == {UNDEFINED} \cup (0..(MaxIds + 2))

\* The three operations, each run from the handler to the end of the
\* service call.
Insert(p) ==
    /\ proc[p].pc = "idle"
    /\ nextId <= MaxIds
    /\ \E request \in InsertRequests(Callers, PoseArgs, Positions) :
          Commit(p, Run(Begun(request), 0))
    /\ UNCHANGED faults

Move(p) ==
    /\ proc[p].pc = "idle"
    /\ \E request \in MoveRequests(Callers, Positions, BOOLEAN) :
          Commit(p, Run(Begun(request), 0))
    /\ UNCHANGED faults

Remove(p) ==
    /\ proc[p].pc = "idle"
    /\ \E request \in RemoveRequests(Callers) :
          Commit(p, Run(Begun(request), 0))
    /\ UNCHANGED faults

\* The handler has sent its response.
Respond(p) ==
    /\ proc[p].pc = "done"
    /\ proc' = [proc EXCEPT ![p] = ProcNone]
    /\ UNCHANGED <<sequence_poses, nextId, faults, poses, pose_versions, aside>>

\* Requests handled one at a time, the store never failing on its own.
Next ==
    \/ Insert(1)
    \/ Move(1)
    \/ Remove(1)
    \/ Respond(1)

Spec == Init /\ [][Next]_vars

\* The store calls of one request: at most seven besides the shift writes.
FailPoints == 1..(MaxIds + 7)

\* Requests of the owner handled one at a time; any one store call of a
\* request may fail.
OwnerCallers == {<<"u1", "s1">>}
OwnerPoseArgs == {<<"p1", UNDEFINED>>}

\* The request run to its end, with the faults of the store counted.
CommitFaulty(p, w) ==
    /\ Commit(p, w)
    /\ faults' = IF w.pr.result = StoreFault THEN faults + 1 ELSE faults

FailAts == IF faults < MaxFaults THEN FailPoints \cup {0} ELSE {0}

InsertFaulty(p) ==
    /\ proc[p].pc = "idle"
    /\ nextId <= MaxIds
    /\ \E request \in InsertRequests(OwnerCallers, OwnerPoseArgs, Positions),
          failAt \in FailAts :
          CommitFaulty(p, Run(Begun(request), failAt))

MoveFaulty(p) ==
    /\ proc[p].pc = "idle"
    /\ \E request \in MoveRequests(OwnerCallers, Positions, {FALSE}),
          failAt \in FailAts :
          CommitFaulty(p, Run(Begun(request), failAt))

RemoveFaulty(p) ==
    /\ proc[p].pc = "idle"
    /\ \E request \in RemoveRequests(OwnerCallers), failAt \in FailAts :
          CommitFaulty(p, Run(Begun(request), failAt))

NextFault ==
    \/ InsertFaulty(1)
    \/ MoveFaulty(1)
    \/ RemoveFaulty(1)
    \/ Respond(1)

SpecFault == Init /\ [][NextFault]_vars

\* Two requests of the owner on one sequence, interleaved at their store
\* calls.  The sequence starts with any number of entries, dense.
InitConc ==
    \E n \in 0..(MaxIds - 1) :
        /\ sequence_poses =
              { [id |-> i, sequence_id |-> "s1", pose_id |-> "p1",
                 pose_version_id |-> "v2", position |-> i] : i \in 1..n }
        /\ nextId = n + 1
        /\ proc = [p \in Procs |-> ProcNone]
        /\ faults = 0
        /\ poses = SeedPoses
        /\ pose_versions = SeedPoseVersions
        /\ AsWritten
        /\ Beside
    /\ Beside

InFlight(p) == proc[p].pc \notin {"idle", "done"}

InFlightInserts == Cardinality({q \in Procs : InFlight(q) /\ proc[q].op.kind = "insert"})

ConcPositions == {UNDEFINED} \cup (1..MaxIds)

Begin(p, request) ==
    /\ proc[p].pc = "idle"
    /\ proc' = [proc EXCEPT ![p] = Handle(sequence_poses, request)]
    /\ UNCHANGED <<sequence_poses, nextId, faults, poses, pose_versions, aside>>

PostBegin(p) ==
    /\ nextId + InFlightInserts <= MaxIds
    /\ \E request \in InsertRequests(OwnerCallers, OwnerPoseArgs, ConcPositions) :
          Begin(p, request)

PatchBegin(p) ==
    \E request \in MoveRequests(OwnerCallers, ConcPositions, {FALSE}) : Begin(p, request)

DeleteBegin(p) ==
    \E request \in RemoveRequests(OwnerCallers) : Begin(p, request)

\* Request p makes its next store call.
Advance(p) ==
    /\ InFlight(p)
    /\ Commit(p, ServiceStep(World(sequence_poses, nextId, proc[p])))
    /\ UNCHANGED faults

NextConc ==
    \E p \in Procs :
        \/ PostBegin(p)
        \/ PatchBegin(p)
        \/ DeleteBegin(p)
        \/ Advance(p)

SpecConc == InitConc /\ [][NextConc]_vars

\* Two requests of the owner on different sequences, interleaved at their
\* store calls: request 1 is on s1, request 2 on s2.  Both sequences start
\* with any number of entries, dense.
InitPar ==
    \E n1 \in 0..(MaxIds - 1) : \E n2 \in 0..(MaxIds - 1 - n1) :
        /\ sequence_poses =
              { [id |-> i, sequence_id |-> "s1", pose_id |-> "p1",
                 pose_version_id |-> "v2", position |-> i] : i \in 1..n1 }
              \cup
              { [id |-> n1 + i, sequence_id |-> "s2", pose_id |-> "p1",
                 pose_version_id |-> "v2", position |-> i] : i \in 1..n2 }
        /\ nextId = n1 + n2 + 1
        /\ proc = [p \in Procs |-> ProcNone]
        /\ faults = 0
        /\ poses = SeedPoses
        /\ pose_versions = SeedPoseVersions
        /\ AsWritten
        /\ Beside
    /\ Beside

ParCallers(p) == {<<"u1", IF p = 1 THEN "s1" ELSE "s2">>}

PostOn(p) ==
    /\ nextId + InFlightInserts <= MaxIds
    /\ \E request \in InsertRequests(ParCallers(p), OwnerPoseArgs, ConcPositions) :
          Begin(p, request)

PatchOn(p) ==
    \E request \in MoveRequests(ParCallers(p), ConcPositions, {FALSE}) : Begin(p, request)

DeleteOn(p) ==
    \E request \in RemoveRequests(ParCallers(p)) : Begin(p, request)

NextPar ==
    \E p \in Procs :
        \/ PostOn(p)
        \/ PatchOn(p)
        \/ DeleteOn(p)
        \/ Advance(p)

SpecPar == InitPar /\ [][NextPar]_vars

\* The service called as the manager's interface, with no handler and no
\* body schema in front of it: a command's position is any number.  (The
\* number -1 stands for an omitted position.)
ServicePositions == (0 - 2)..(MaxIds + 2)

Called(request) ==
    World(sequence_poses, nextId,
          [ProcNone EXCEPT !.op = request, !.pre = sequence_poses, !.pc = "verify"])

addPoseToSequence(p) ==
    /\ proc[p].pc = "idle"
    /\ nextId <= MaxIds
    /\ \E request \in InsertRequests(OwnerCallers, OwnerPoseArgs, ServicePositions) :
          Commit(p, Run(Called(request), 0))
    /\ UNCHANGED faults

updateSequencePose(p) ==
    /\ proc[p].pc = "idle"
    /\ \E request \in MoveRequests(OwnerCallers, ServicePositions, {FALSE}) :
          Commit(p, Run(Called(request), 0))
    /\ UNCHANGED faults

removeSequencePose(p) ==
    /\ proc[p].pc = "idle"
    /\ \E request \in RemoveRequests(OwnerCallers) :
          Commit(p, Run(Called(request), 0))
    /\ UNCHANGED faults

NextService ==
    \/ addPoseToSequence(1)
    \/ updateSequencePose(1)
    \/ removeSequencePose(1)
    \/ Respond(1)

SpecService == Init /\ [][NextService]_vars

\* The catalog changing under the sequences: an administrator stores a new
\* version of a pose and makes it the pose's current version.  Requests of
\* the owner and publications happen one at a time.
PublishVersion ==
    /\ \A p \in Procs : proc[p].pc = "idle"
    /\ Cardinality(pose_versions) < MaxVersions
    /\ \E q \in poses :
          LET mine    == {v.version : v \in {x \in pose_versions : x.pose_id = q.id}}
              version == IF mine = {} THEN 1 ELSE SetMax(mine) + 1
              id      == "v" \o ToString(Cardinality(pose_versions) + 1)
          IN  /\ pose_versions' =
                    pose_versions \cup {[id |-> id, pose_id |-> q.id, version |-> version]}
              /\ poses' = (poses \ {q}) \cup {[q EXCEPT !.current_version_id = id]}
    /\ UNCHANGED <<sequence_poses, nextId, proc, faults, aside>>

\* Every version number of p1; the first version, or none, of p2 and p3.
\* Inserts are at the front, so that each shifts the entries already there.
VersionPoseArgs ==
    ({"p1"} \X ({UNDEFINED} \cup (1..(MaxVersions - 1))))
        \cup ({"p2", "p3"} \X {UNDEFINED, 1})
VersionPositions == {1}

PostVersioned(p) ==
    /\ proc[p].pc = "idle"
    /\ nextId < MaxIds
    /\ \E request \in InsertRequests(OwnerCallers, VersionPoseArgs, VersionPositions) :
          Commit(p, Run(Begun(request), 0))
    /\ UNCHANGED faults

PatchOwner(p) ==
    /\ proc[p].pc = "idle"
    /\ \E request \in MoveRequests(OwnerCallers, {1}, {FALSE}) :
          Commit(p, Run(Begun(request), 0))
    /\ UNCHANGED faults

DeleteOwner(p) ==
    /\ proc[p].pc = "idle"
    /\ \E request \in RemoveRequests(OwnerCallers) :
          Commit(p, Run(Begun(request), 0))
    /\ UNCHANGED faults

NextVersion ==
    \/ PostVersioned(1)
    \/ PatchOwner(1)
    \/ DeleteOwner(1)
    \/ Respond(1)
    \/ PublishVersion

SpecVersion == Init /\ [][NextVersion]_vars

\* A build with one of the two authorization layers taken out: either
\* verifySequenceOwnership's query or the row-level policies.  The owner u1
\* and another user u2 call in turn, u2 naming u1's sequence or none.
InitLayers ==
    /\ sequence_poses = {}
    /\ nextId = 1
    /\ proc = [p \in Procs |-> ProcNone]
    /\ faults = 0
    /\ poses = SeedPoses
    /\ pose_versions = SeedPoseVersions
    /\ disabled \in {"query", "rls"}
    /\ Beside

LayerCallers == {<<"u1", "s1">>, <<"u2", "s1">>, <<"u2", "s3">>}

PostLayered(p) ==
    /\ proc[p].pc = "idle"
    /\ nextId <= MaxIds
    /\ \E request \in InsertRequests(LayerCallers, OwnerPoseArgs, ConcPositions) :
          Commit(p, Run(Begun(request), 0))
    /\ UNCHANGED faults

PatchLayered(p) ==
    /\ proc[p].pc = "idle"
    /\ \E request \in MoveRequests(LayerCallers, ConcPositions, {FALSE}) :
          Commit(p, Run(Begun(request), 0))
    /\ UNCHANGED faults

DeleteLayered(p) ==
    /\ proc[p].pc = "idle"
    /\ \E request \in RemoveRequests(LayerCallers) :
          Commit(p, Run(Begun(request), 0))
    /\ UNCHANGED faults

NextLayers ==
    \/ PostLayered(1)
    \/ PatchLayered(1)
    \/ DeleteLayered(1)
    \/ Respond(1)

SpecLayers == InitLayers /\ [][NextLayers]_vars

\* The owner builds the sequence s1 by Inserts, requests handled one at a
\* time; the entry an Insert has just created may be removed by the next
\* request, before any other.
PostOwner(p) ==
    /\ proc[p].pc = "idle"
    /\ nextId <= MaxIds
    /\ \E request \in InsertRequests(OwnerCallers, OwnerPoseArgs, ConcPositions) :
          Commit(p, Run(Begun(request), 0))
    /\ UNCHANGED faults

DeleteCreated(p, q) ==
    /\ proc[p].pc = "idle"
    /\ proc[q].pc = "done" /\ proc[q].op.kind = "insert" /\ proc[q].result = "OK"
    /\ \E request \in RemoveRequests(OwnerCallers) :
          /\ request.sequencePoseId = proc[q].newId
          /\ Commit(p, Run(Begun(request), 0))
    /\ UNCHANGED faults

NextRoundTrip ==
    \/ PostOwner(1)
    \/ DeleteCreated(2, 1)
    \/ Respond(1)
    \/ Respond(2)

SpecRoundTrip == Init /\ [][NextRoundTrip]_vars

\* The AI-generation rate limiter.  One tick of the clock stands for
\* windowMs / WindowTicks milliseconds.
maxRequests == 5
windowMs == WindowTicks

\* timestamps.filter((timestamp) => timestamp > windowStart)
Recent(timestamps, windowStart) == SelectSeq(timestamps, LAMBDA t : t > windowStart)

\* Mutant of LimitExceeded: one request more is let through.
LimitExceededOffByOne(recentRequests) == Len(recentRequests) > maxRequests

\* recentRequests.length >= this.config.maxRequests
LimitExceeded(recentRequests) == Len(recentRequests) >= maxRequests

\* Math.min(...recentRequests)
OldestRequest(recentRequests) ==
    SetMin({recentRequests[i] : i \in 1..Len(recentRequests)})

\* check(userId): the answer, and the timestamps kept for the user.
check(userId) ==
    LET windowStart    == now - windowMs
        userRequests   == requests[userId]
        recentRequests == Recent(userRequests, windowStart)
    IN  IF LimitExceeded(recentRequests)
        THEN [kept |-> userRequests,
              result |-> [allowed |-> FALSE, remaining |-> 0,
                          retryAfter |-> OldestRequest(recentRequests) + windowMs - now]]
        ELSE [kept |-> Append(recentRequests, now),
              result |-> [allowed |-> TRUE,
                          remaining |-> maxRequests - (Len(recentRequests) + 1),
                          retryAfter |-> UNDEFINED]]

manager == <<sequence_poses, nextId, proc, faults, poses, pose_versions, disabled>>

\* A request of userId reaches the limiter.
Check(userId) ==
    /\ Len(calls) < MaxChecks
    /\ requests' = [requests EXCEPT ![userId] = check(userId).kept]
    /\ calls' = Append(calls, [userId |-> userId, at |-> now,
                               result |-> check(userId).result])
    /\ UNCHANGED <<now, generated, manager>>

\* cleanup(), run by the interval timer.
Cleanup ==
    /\ requests' = [u \in Users |-> Recent(requests[u], now - windowMs)]
    /\ UNCHANGED <<now, calls, generated, manager>>

\* The clock moves on.
Tick ==
    /\ now < MaxTime
    /\ now' = now + 1
    /\ UNCHANGED <<requests, calls, generated, manager>>

NextRate ==
    \/ \E userId \in Users : Check(userId)
    \/ Cleanup
    \/ Tick

SpecRate == Init /\ [][NextRate]_vars

\* The mock sequence generator.  The command's duration is in minutes, 5
\* to 90, 20 when omitted; the catalog query returns the matching poses.
Durations == {UNDEFINED} \cup (5..90)

\* Math.min(Math.max(Math.floor(duration / 2.5), 6), 12)
PoseCount(duration) ==
    LET floor == (2 * duration) \div 5
        atLeast == IF floor > 6 THEN floor ELSE 6
    IN  IF atLeast < 12 THEN atLeast ELSE 12

\* poses.sort(() => Math.random() - 0.5).slice(0, poseCount): any poseCount
\* of the poses, all of them when there are fewer.
Selections(fetched, poseCount) ==
    IF Cardinality(fetched) <= poseCount THEN {fetched}
    ELSE {S \in SUBSET fetched : Cardinality(S) = poseCount}

\* generateMockSequence: the responses it can give for a command's duration
\* and the poses its query fetched.
generateMockSequence(commandDuration, fetched) ==
    LET duration  == IF commandDuration = UNDEFINED THEN 20 ELSE commandDuration
        poseCount == PoseCount(duration)
    IN  IF fetched = {} THEN {[status |-> "NO_POSES_AVAILABLE"]}
        ELSE {[status |-> "OK", poses |-> selectedPoses, poseCount |-> poseCount,
               duration |-> duration] :
                 selectedPoses \in Selections(fetched, poseCount)}

\* A call of generateMockSequence.
Generate ==
    /\ \E commandDuration \in Durations : \E n \in 0..MaxCatalog :
          generated' \in generateMockSequence(commandDuration, 1..n)
    /\ UNCHANGED <<requests, now, calls, manager>>

NextAi == Generate

SpecAi == Init /\ [][NextAi]_vars

----------------------------------------------------------------------------
(* Vocabulary of the properties.                                           *)

SeqRows(rows, sequenceId) == {r \in rows : r.sequence_id = sequenceId}

\* The positions of the sequence's N rows are exactly 1..N.  (N positions
\* that cover 1..N are pairwise distinct.)
Dense(rows, sequenceId) ==
    {r.position : r \in SeqRows(rows, sequenceId)}
        = 1..Cardinality(SeqRows(rows, sequenceId))

AllDense(rows) == \A s \in SequenceIds : Dense(rows, s)

Finished(p) == proc[p].pc = "done"

\* The handler reached the service call.
ServiceCalled(p) ==
    Finished(p) /\ proc[p].result \notin {"UNAUTHORIZED", "VALIDATION_ERROR"}

Succeeded(p) == Finished(p) /\ proc[p].result = "OK"

\* The row the request names, as it was when the request began.
TargetBefore(p) ==
    {r \in proc[p].pre : r.id = proc[p].op.sequencePoseId
                         /\ r.sequence_id = proc[p].op.sequenceId}

CountBefore(p) == Cardinality(SeqRows(proc[p].pre, proc[p].op.sequenceId))

----------------------------------------------------------------------------
(* Properties.                                                             *)

\* C1: with requests handled one at a time from empty sequences, after
\* every Insert, Move and Remove the positions of each sequence's N entries
\* are exactly 1..N.
C1_DenseAfterOperations ==
    \A p \in Procs : proc[p].pc \in {"idle", "done"} => AllDense(sequence_poses)

\* C1 witness: a Remove of the first of three entries has succeeded, after
\* three successful Inserts.
C1_Witness ==
    /\ Succeeded(1) /\ proc[1].op.kind = "remove"
    /\ CountBefore(1) = 3
    /\ \E r \in TargetBefore(1) : r.position = 1

\* C2: once two concurrent operations on the same sequence have both
\* finished, the sequence's positions are dense.
C2_DenseAfterConcurrent ==
    (\A p \in Procs : Finished(p)) => Dense(sequence_poses, "s1")

ShiftWrites == {"a_shiftwrite", "u_shiftwrite", "r_shiftwrite"}

\* C3: an operation in which a write of the shift phase fails, after other
\* writes of the operation have been made, leaves the table as it was when
\* the operation began.
C3_FailedShiftLeavesTableUnchanged ==
    \A p \in Procs :
        (Finished(p) /\ proc[p].failedCall \in ShiftWrites /\ proc[p].nwrites > 0)
            => sequence_poses = proc[p].pre

\* C4: in every state of the table, also between the row writes of one
\* operation, the positions of the sequence are dense.
C4_DenseInEveryState == Dense(sequence_poses, "s1")

FailFastErrors ==
    {"INVALID_POSITION", "SEQUENCE_NOT_FOUND", "SEQUENCE_POSE_NOT_FOUND",
     "POSE_NOT_FOUND", "POSE_VERSION_NOT_FOUND"}

\* C6: an operation that ends with INVALID_POSITION or a *_NOT_FOUND error
\* has issued no store write, and the table is as it was before the call.
C6_FailFast ==
    \A p \in Procs :
        (Finished(p) /\ proc[p].result \in FailFastErrors)
            => proc[p].nwrites = 0 /\ sequence_poses = proc[p].pre

\* C6 witness: an Insert at position 4 into a sequence of two entries has
\* ended INVALID_POSITION.
C6_Witness ==
    /\ Finished(1) /\ proc[1].op.kind = "insert"
    /\ proc[1].result = "INVALID_POSITION"
    /\ CountBefore(1) = 2 /\ proc[1].op.position = 4

\* A Move of an existing entry of the caller's dense sequence to another
\* position within 1..N.
MoveInRange(p) ==
    /\ ServiceCalled(p) /\ proc[p].op.kind = "move" /\ ~proc[p].op.extra
    /\ OwnsSequence(proc[p].op.user, proc[p].op.sequenceId)
    /\ TargetBefore(p) # {}
    /\ Dense(proc[p].pre, proc[p].op.sequenceId)
    /\ proc[p].op.position \in 1..CountBefore(p)

OldPosition(p) == (CHOOSE r \in TargetBefore(p) : TRUE).position

\* The table after moving the target from oldPosition to a later position:
\* the rows in (oldPosition, newPosition] one down, the target at newPosition.
MovedLater(p) ==
    { IF r \in TargetBefore(p) THEN [r EXCEPT !.position = proc[p].op.position]
      ELSE IF /\ r.sequence_id = proc[p].op.sequenceId
              /\ r.position > OldPosition(p)
              /\ r.position <= proc[p].op.position
      THEN [r EXCEPT !.position = @ - 1]
      ELSE r : r \in proc[p].pre }

\* The table after moving the target from oldPosition to an earlier
\* position: the rows in [newPosition, oldPosition) one up.
MovedEarlier(p) ==
    { IF r \in TargetBefore(p) THEN [r EXCEPT !.position = proc[p].op.position]
      ELSE IF /\ r.sequence_id = proc[p].op.sequenceId
              /\ r.position >= proc[p].op.position
              /\ r.position < OldPosition(p)
      THEN [r EXCEPT !.position = @ + 1]
      ELSE r : r \in proc[p].pre }

\* C7: a Move of the entry at oldPosition of a dense sequence to a later
\* position newPosition <= N ends with the moved entry at newPosition, the
\* entries of (oldPosition, newPosition] one position down and every other
\* entry where it was.
C7_MoveLater ==
    \A p \in Procs :
        (MoveInRange(p) /\ OldPosition(p) < proc[p].op.position)
            => sequence_poses = MovedLater(p)

\* C8: a Move of the entry at oldPosition of a dense sequence to an earlier
\* position newPosition >= 1 ends with the moved entry at newPosition, the
\* entries of [newPosition, oldPosition) one position up and every other
\* entry where it was.
C8_MoveEarlier ==
    \A p \in Procs :
        (MoveInRange(p) /\ OldPosition(p) > proc[p].op.position)
            => sequence_poses = MovedEarlier(p)

\* C9: a successful Insert with a supplied position p into a dense sequence
\* creates the new entry at p, leaves the entries before p where they were
\* and puts every entry at or after p one position up; nothing else changes.
C9_InsertAtPosition ==
    \A p \in Procs :
        LET o == proc[p].op
        IN  (/\ Succeeded(p) /\ o.kind = "insert" /\ o.position # UNDEFINED
             /\ Dense(proc[p].pre, o.sequenceId))
            => /\ o.position \in 1..(CountBefore(p) + 1)
               /\ \E new \in sequence_poses :
                     /\ new.id = proc[p].newId
                     /\ new.id \notin {r.id : r \in proc[p].pre}
                     /\ new.sequence_id = o.sequenceId
                     /\ new.position = o.position
                     /\ sequence_poses \ {new} =
                           { IF r.sequence_id = o.sequenceId /\ r.position >= o.position
                             THEN [r EXCEPT !.position = @ + 1]
                             ELSE r : r \in proc[p].pre }

\* C9 witness: an Insert at position 2 into a sequence of two entries has
\* succeeded (one entry stays, one is shifted), with an entry in the
\* caller's other sequence.
C9_Witness ==
    /\ Succeeded(1) /\ proc[1].op.kind = "insert"
    /\ proc[1].op.position = 2 /\ CountBefore(1) = 2
    /\ Cardinality(proc[1].pre) = 3

\* C10: a successful Remove of the entry at position d of a dense sequence
\* deletes it, puts every entry after d one position down and leaves the
\* entries before d where they were, so that the positions are 1..N-1.
C10_RemoveCollapses ==
    \A p \in Procs :
        LET o == proc[p].op
        IN  (/\ Succeeded(p) /\ o.kind = "remove"
             /\ Dense(proc[p].pre, o.sequenceId))
            => /\ TargetBefore(p) # {}
               /\ sequence_poses =
                     { IF r.sequence_id = o.sequenceId /\ r.position > OldPosition(p)
                       THEN [r EXCEPT !.position = @ - 1]
                       ELSE r : r \in proc[p].pre \ TargetBefore(p) }
               /\ {r.position : r \in SeqRows(sequence_poses, o.sequenceId)}
                     = 1..(CountBefore(p) - 1)

\* C10 witness: the second of four entries has been removed.
C10_Witness ==
    /\ Succeeded(1) /\ proc[1].op.kind = "remove"
    /\ CountBefore(1) = 4
    /\ \E r \in TargetBefore(1) : r.position = 2

\* C11: a successful Insert that omits position puts the new entry at N+1,
\* N the number of entries of the sequence before the call, and leaves
\* every existing entry as it was.
C11_AppendAtEnd ==
    \A p \in Procs :
        LET o == proc[p].op
        IN  (Succeeded(p) /\ o.kind = "insert" /\ o.position = UNDEFINED)
            => \E new \in sequence_poses :
                  /\ new.id = proc[p].newId
                  /\ new.sequence_id = o.sequenceId
                  /\ new.position = CountBefore(p) + 1
                  /\ new \notin proc[p].pre
                  /\ sequence_poses \ {new} = proc[p].pre

\* C11 witness: an Insert without position into a sequence of two entries
\* has succeeded.
C11_Witness ==
    /\ Succeeded(1) /\ proc[1].op.kind = "insert"
    /\ proc[1].op.position = UNDEFINED /\ CountBefore(1) = 2

\* A Move, without duration or instructions, of an existing entry of the
\* caller's sequence.
MoveOfEntry(p) ==
    /\ ServiceCalled(p) /\ proc[p].op.kind = "move" /\ ~proc[p].op.extra
    /\ OwnsSequence(proc[p].op.user, proc[p].op.sequenceId)
    /\ TargetBefore(p) # {}

\* C12: a Move to the position the entry already has issues no write,
\* leaves the table as it was and returns the entry successfully.
C12_MoveToSamePosition ==
    \A p \in Procs :
        (MoveOfEntry(p) /\ proc[p].op.position = OldPosition(p))
            => /\ proc[p].result = "OK"
               /\ proc[p].nwrites = 0
               /\ sequence_poses = proc[p].pre

\* C12 witness: the second of three entries has been moved to position 2.
C12_Witness ==
    /\ MoveOfEntry(1) /\ CountBefore(1) = 3
    /\ proc[1].op.position = 2 /\ OldPosition(1) = 2
    /\ Succeeded(1)

\* C13: a Move of an entry of a dense sequence of N entries to a position
\* outside 1..N (below 1, or N+1 and beyond) ends INVALID_POSITION with no
\* write and the table unchanged; a Move to a position within 1..N does not
\* end INVALID_POSITION.
C13_MoveRange ==
    \A p \in Procs :
        (/\ MoveOfEntry(p) /\ Dense(proc[p].pre, proc[p].op.sequenceId)
         /\ proc[p].op.position # UNDEFINED)
            => IF proc[p].op.position \in 1..CountBefore(p)
               THEN proc[p].result # "INVALID_POSITION"
               ELSE /\ proc[p].result = "INVALID_POSITION"
                    /\ proc[p].nwrites = 0
                    /\ sequence_poses = proc[p].pre

\* C13 witness: the last of two entries was to move to position 3, the
\* slot an Insert would have accepted.
C13_Witness ==
    /\ MoveOfEntry(1) /\ Dense(proc[1].pre, proc[1].op.sequenceId)
    /\ CountBefore(1) = 2 /\ OldPosition(1) = 2 /\ proc[1].op.position = 3
    /\ proc[1].result = "INVALID_POSITION"

\* An Insert of a resolvable pose into the caller's own sequence with a
\* supplied position.
InsertAtSupplied(p) ==
    /\ ServiceCalled(p) /\ proc[p].op.kind = "insert"
    /\ OwnsSequence(proc[p].op.user, proc[p].op.sequenceId)
    /\ resolvePoseVersion(proc[p].op.poseId, proc[p].op.poseVersion).error = StoreOk
    /\ proc[p].op.position # UNDEFINED

\* C14: an Insert with a supplied position greater than N+1 ends
\* INVALID_POSITION having issued no write: no entry is shifted, none is
\* created.
C14_InsertPastEnd ==
    \A p \in Procs :
        (InsertAtSupplied(p) /\ proc[p].op.position > CountBefore(p) + 1)
            => /\ proc[p].result = "INVALID_POSITION"
               /\ proc[p].nwrites = 0
               /\ sequence_poses = proc[p].pre

\* C14 witness: an Insert at position 4 into a sequence of two entries.
C14_Witness ==
    /\ InsertAtSupplied(1) /\ CountBefore(1) = 2 /\ proc[1].op.position = 4
    /\ proc[1].result = "INVALID_POSITION" /\ sequence_poses = proc[1].pre

\* C15: an Insert with a supplied position below 1 ends INVALID_POSITION
\* and leaves the table as it was.
C15_InsertBelowOne ==
    \A p \in Procs :
        (InsertAtSupplied(p) /\ proc[p].op.position < 1)
            => /\ proc[p].result = "INVALID_POSITION"
               /\ sequence_poses = proc[p].pre

\* C16: a Move or Remove naming an entry id that does not exist, or an entry
\* of another sequence, ends SEQUENCE_POSE_NOT_FOUND with no write and no
\* entry of any sequence changed.
C16_EntryNotInSequence ==
    \A p \in Procs :
        (/\ ServiceCalled(p) /\ proc[p].op.kind \in {"move", "remove"}
         /\ OwnsSequence(proc[p].op.user, proc[p].op.sequenceId)
         /\ TargetBefore(p) = {})
            => /\ proc[p].result = "SEQUENCE_POSE_NOT_FOUND"
               /\ proc[p].nwrites = 0
               /\ sequence_poses = proc[p].pre

\* C16 witness: a Remove on s1 named an entry of s2, the caller's other
\* sequence.
C16_Witness ==
    /\ ServiceCalled(1) /\ proc[1].op.kind = "remove"
    /\ proc[1].op.user = "u1" /\ proc[1].op.sequenceId = "s1"
    /\ \E r \in proc[1].pre : r.id = proc[1].op.sequencePoseId /\ r.sequence_id = "s2"
    /\ proc[1].result = "SEQUENCE_POSE_NOT_FOUND"

\* C17: an entry's pose id and pose-version id never change: not when a new
\* version of its pose becomes the current one, and not through any Insert,
\* Move or Remove, which change positions only.
C17_VersionPinned ==
    [][\A r \in sequence_poses : \A t \in sequence_poses' :
          t.id = r.id => t.pose_id = r.pose_id /\ t.pose_version_id = r.pose_version_id]_vars

\* C17 witness: an entry references a version that is no longer its pose's
\* current one, and a later Insert has shifted the entry.
C17_Witness ==
    /\ Succeeded(1) /\ proc[1].op.kind = "insert"
    /\ \E r \in sequence_poses : \E q \in poses : \E b \in proc[1].pre :
          /\ q.id = r.pose_id /\ q.current_version_id # r.pose_version_id
          /\ b.id = r.id /\ b.position # r.position
          /\ b.pose_version_id = r.pose_version_id

\* The entry an Insert has created.
NewEntry(p) == {r \in sequence_poses : r.id = proc[p].newId}

\* C18: an Insert with poseVersion references the version of poseId with
\* that number and ends POSE_VERSION_NOT_FOUND when there is none; an Insert
\* without poseVersion references the pose's current version and ends
\* POSE_NOT_FOUND when the pose does not exist or has no current version.
C18_VersionResolved ==
    \A p \in Procs :
        LET o        == proc[p].op
            numbered == {v \in pose_versions : v.pose_id = o.poseId /\ v.version = o.poseVersion}
            current  == {q \in poses : q.id = o.poseId /\ q.current_version_id # NoVersion}
        IN  (/\ ServiceCalled(p) /\ o.kind = "insert"
             /\ OwnsSequence(o.user, o.sequenceId))
            => /\ (o.poseVersion # UNDEFINED /\ numbered = {})
                      => proc[p].result = "POSE_VERSION_NOT_FOUND"
               /\ (o.poseVersion = UNDEFINED /\ current = {})
                      => proc[p].result = "POSE_NOT_FOUND"
               /\ (o.poseVersion # UNDEFINED /\ numbered # {})
                      => /\ proc[p].result \notin {"POSE_VERSION_NOT_FOUND", "POSE_NOT_FOUND"}
                         /\ Succeeded(p) =>
                               \A r \in NewEntry(p) : \A v \in numbered :
                                   r.pose_id = o.poseId /\ r.pose_version_id = v.id
               /\ (o.poseVersion = UNDEFINED /\ current # {})
                      => /\ proc[p].result \notin {"POSE_VERSION_NOT_FOUND", "POSE_NOT_FOUND"}
                         /\ Succeeded(p) =>
                               \A r \in NewEntry(p) : \A q \in current :
                                   r.pose_id = o.poseId
                                   /\ r.pose_version_id = q.current_version_id
               /\ Succeeded(p) => NewEntry(p) # {}

\* C18 witness: an Insert naming version 1 of p1 has succeeded while p1's
\* current version is another one.
C18_Witness ==
    /\ Succeeded(1) /\ proc[1].op.kind = "insert"
    /\ proc[1].op.poseId = "p1" /\ proc[1].op.poseVersion = 1
    /\ \E r \in NewEntry(1) : r.pose_version_id = "v1"
    /\ \E q \in poses : q.id = "p1" /\ q.current_version_id \notin {"v1", NoVersion}

Alone(p) ==
    Run(World(proc[p].pre,
              IF proc[p].newId # 0 THEN proc[p].newId ELSE nextId,
              Handle(proc[p].pre, proc[p].op)), 0)

\* The rows of sequence S change only in a store call of a request on S.
ChangedOnlyByOwnRequest ==
    \A S \in SequenceIds :
        SeqRows(sequence_poses', S) # SeqRows(sequence_poses, S)
            => \E p \in Procs : /\ InFlight(p) /\ proc[p].op.sequenceId = S
                                /\ proc'[p] # proc[p]
                                /\ \A q \in Procs \ {p} : proc'[q] = proc[q]

\* A finished request has the outcome, and its sequence the rows, of the
\* request run on its own.
AsIfAlone ==
    \A p \in Procs :
        Finished(p)
            => /\ proc[p].result = Alone(p).pr.result
               /\ SeqRows(sequence_poses, proc[p].op.sequenceId)
                     = SeqRows(Alone(p).rows, proc[p].op.sequenceId)

\* C20: an operation on one sequence never creates, deletes or moves an
\* entry of another sequence, and two operations on different sequences
\* whose store calls interleave end as if each had run on its own.
C20_SequencesIndependent == [][ChangedOnlyByOwnRequest]_vars /\ []AsIfAlone

\* C20 witness: an Insert at position 1 of s1 and a Remove of the first
\* entry of s2 have both succeeded, each with a shift, the Remove having
\* begun between the Insert's shift and its insert.
C20_Witness ==
    /\ Succeeded(1) /\ proc[1].op.kind = "insert" /\ proc[1].nwrites >= 2
    /\ Succeeded(2) /\ proc[2].op.kind = "remove" /\ proc[2].nwrites >= 2
    /\ ~Dense(proc[2].pre, "s1")

\* C21: with either authorization layer taken out, a service call by a user
\* who does not own the named sequence changes no entry; with the policies
\* taken out, the ownership query ends it SEQUENCE_NOT_FOUND before any
\* write is issued.
C21_TwoLayers ==
    \A p \in Procs :
        (/\ ServiceCalled(p) /\ disabled \in {"query", "rls"}
         /\ ~OwnsSequence(proc[p].op.user, proc[p].op.sequenceId))
            => /\ sequence_poses = proc[p].pre
               /\ disabled = "rls"
                     => proc[p].result = "SEQUENCE_NOT_FOUND" /\ proc[p].nwrites = 0

\* C21 witness: with the ownership query taken out, u2's Insert at the
\* front of u1's sequence of two entries got as far as the row insert, which
\* the insert policy refused.
C21_Witness ==
    /\ disabled = "query"
    /\ Finished(1) /\ proc[1].op.kind = "insert"
    /\ proc[1].op.user = "u2" /\ proc[1].op.sequenceId = "s1"
    /\ proc[1].op.position = 1 /\ CountBefore(1) = 2
    /\ proc[1].result = RlsError /\ proc[1].nwrites = 1

\* The status and code the interface states for an outcome of an operation.
StatedResponse(kind, result) ==
    CASE result = "OK" ->
            [status |-> CASE kind = "insert" -> 201 [] kind = "move" -> 200 [] OTHER -> 204,
             code |-> "OK"]
      [] result \in {"SEQUENCE_NOT_FOUND", "SEQUENCE_POSE_NOT_FOUND"} ->
            [status |-> 404, code |-> result]
      [] result \in {"POSE_NOT_FOUND", "POSE_VERSION_NOT_FOUND", "INVALID_POSITION"} ->
            [status |-> 400, code |-> result]
      [] result = "DURATION_AND_INSTRUCTIONS_NOT_SUPPORTED" ->
            [status |-> 400, code |-> "FEATURE_NOT_SUPPORTED"]
      [] result = "UNAUTHORIZED" -> [status |-> 401, code |-> "UNAUTHORIZED"]
      [] OTHER -> [status |-> 500, code |-> "INTERNAL_ERROR"]

AllowedIn(userId, from, to, n) ==
    {i \in 1..n : /\ calls[i].userId = userId /\ calls[i].result.allowed
                  /\ calls[i].at > from /\ calls[i].at <= to}

\* C23: for every user, at most maxRequests (5) of the calls answered
\* allowed fall in any window of windowMs (the window that ends at t begins
\* just after t - windowMs), and a call made while 5 allowed calls of the
\* user lie in the window ending at the call is denied.
C23_RollingWindow ==
    \A userId \in Users :
        /\ \A t \in 0..MaxTime :
              Cardinality(AllowedIn(userId, t - windowMs, t, Len(calls))) <= maxRequests
        /\ \A i \in 1..Len(calls) :
              (/\ calls[i].userId = userId
               /\ Cardinality(AllowedIn(userId, calls[i].at - windowMs, calls[i].at, i - 1))
                     >= maxRequests)
                  => ~calls[i].result.allowed

\* C23 witness: a user's sixth call was denied, five allowed calls made at
\* two different ticks lying within the window; the other user, calling
\* afterwards, was allowed.
C23_Witness ==
    \E i \in 1..Len(calls) : \E j \in 1..Len(calls) :
        /\ ~calls[i].result.allowed
        /\ Cardinality(AllowedIn(calls[i].userId, calls[i].at - windowMs,
                                  calls[i].at, i - 1)) = maxRequests
        /\ Cardinality({calls[k].at : k \in AllowedIn(calls[i].userId,
                             calls[i].at - windowMs, calls[i].at, i - 1)}) = 2
        /\ j > i /\ calls[j].userId # calls[i].userId /\ calls[j].result.allowed

\* C24: during a Move of an entry of a dense sequence to another position
\* within 1..N, no position write puts a row on a position another row of
\* the sequence holds: the store's unique (sequence_id, position) refuses
\* none of the Move's writes.
C24_NoCollisionDuringMove ==
    \A p \in Procs :
        (MoveInRange(p) /\ proc[p].op.position # OldPosition(p))
            => proc[p].result # UniqueError

\* An Insert, begun and not yet answered, at a supplied position within
\* 1..N of the caller's dense sequence of N entries.
InsertWithin(p) ==
    /\ proc[p].pc # "idle" /\ proc[p].op.kind = "insert"
    /\ proc[p].result \notin {"UNAUTHORIZED", "VALIDATION_ERROR"}
    /\ OwnsSequence(proc[p].op.user, proc[p].op.sequenceId)
    /\ resolvePoseVersion(proc[p].op.poseId, proc[p].op.poseVersion).error = StoreOk
    /\ Dense(proc[p].pre, proc[p].op.sequenceId)
    /\ proc[p].op.position \in 1..CountBefore(p)

\* The sequence's rows as they were before the request, those of the k
\* highest positions one position up.
TopShifted(p, k) ==
    { IF r.position > CountBefore(p) - k THEN [r EXCEPT !.position = @ + 1] ELSE r :
        r \in SeqRows(proc[p].pre, proc[p].op.sequenceId) }

\* C25: during an Insert at position p <= N the entries at or after p are
\* put one position up one by one from the highest position downwards,
\* the new row is created only after all of these writes, and at no point
\* do two rows of the sequence hold the same position (no write is refused
\* by the unique constraint).
C25_InsertShiftsDescending ==
    \A p \in Procs :
        LET o    == proc[p].op
            rows == SeqRows(sequence_poses, o.sequenceId)
            all  == CountBefore(p) - o.position + 1
        IN  InsertWithin(p)
            => /\ proc[p].result # UniqueError
               /\ Cardinality({r.position : r \in rows}) = Cardinality(rows)
               /\ proc[p].pc \in {"verify", "a_resolve", "a_validate", "a_shiftfetch"}
                     => rows = TopShifted(p, 0)
               /\ proc[p].pc = "a_shiftwrite"
                     => proc[p].nwrites < all /\ rows = TopShifted(p, proc[p].nwrites)
               /\ proc[p].pc = "a_insert"
                     => proc[p].nwrites = all /\ rows = TopShifted(p, all)
               /\ proc[p].pc \in {"fetchdto", "done"}
                     => /\ proc[p].nwrites = all + 1
                        /\ \E new \in rows :
                              /\ new.id = proc[p].newId /\ new.position = o.position
                              /\ rows \ {new} = TopShifted(p, all)

\* C25 witness: an Insert at position 1 of three entries is between its
\* second and its third shift write: the entries are at 1, 3 and 4.
C25_Witness ==
    /\ InsertWithin(1) /\ proc[1].pc = "a_shiftwrite"
    /\ proc[1].op.position = 1 /\ CountBefore(1) = 3 /\ proc[1].nwrites = 2
    /\ {r.position : r \in SeqRows(sequence_poses, "s1")} = {1, 3, 4}

\* The request of p after its first n store calls, none of them failing on
\* the store's side, from the table it began with.
RECURSIVE Prefix(_, _)
Prefix(p, n) ==
    IF n = 0
    THEN World(proc[p].pre,
               IF proc[p].newId # 0 THEN proc[p].newId ELSE nextId,
               Handle(proc[p].pre, proc[p].op))
    ELSE ServiceStep(Prefix(p, n - 1))

\* Errors the store returns for a statement it refuses.
RefusedByStore == {UniqueError, RlsError, NoRowsError}

\* C26: an operation one of whose store calls returns an error ends with
\* that error (answered 500) and with the table as it was when the call was
\* issued: the failed call is not issued again and no write follows it.
C26_StopsAtStoreError ==
    \A p \in Procs :
        (Finished(p) /\ (proc[p].failedCall # "none" \/ proc[p].result \in RefusedByStore))
            => /\ proc[p].failedCall # "none" => proc[p].result = StoreFault
               /\ Response(proc[p].op.kind, proc[p].result).status = 500
               /\ \E n \in 0..SetMax(FailPoints) :
                     LET v == Prefix(p, n)
                     IN  /\ v.pr.pc # "done"
                         /\ v.rows = sequence_poses
                         /\ IF proc[p].failedCall # "none"
                            THEN /\ v.pr.pc = proc[p].failedCall
                                 /\ v.pr.nwrites = proc[p].nwrites
                            ELSE /\ ServiceStep(v).pr.pc = "done"
                                 /\ ServiceStep(v).pr.result = proc[p].result
                                 /\ ServiceStep(v).rows = v.rows

\* C26 witness: the second shift write of an Insert at the front of two
\* entries failed; the first shift stands and nothing was written after it.
C26_Witness ==
    /\ Finished(1) /\ proc[1].op.kind = "insert"
    /\ proc[1].op.position = 1 /\ CountBefore(1) = 2
    /\ proc[1].failedCall = "a_shiftwrite" /\ proc[1].nwrites = 1
    /\ proc[1].result = StoreFault
    /\ sequence_poses # proc[1].pre
    /\ nextId \notin {r.id : r \in sequence_poses}

\* C27: a sequence generateMockSequence returns, for a duration of 5 to 90
\* minutes and at least one matching pose, has between 6 and 12 poses, and
\* metadata.poseCount is the number of poses in sequence.poses.
C27_PoseCount ==
    generated.status = "OK"
        => /\ Cardinality(generated.poses) \in 6..12
           /\ generated.poseCount = Cardinality(generated.poses)

\* C28: an Insert that omits position does not end INVALID_POSITION,
\* however its store calls interleave with those of another operation on
\* the same sequence.
C28_AppendNeverInvalid ==
    \A p \in Procs :
        (Finished(p) /\ proc[p].op.kind = "insert" /\ proc[p].op.position = UNDEFINED)
            => proc[p].result # "INVALID_POSITION"

\* The checks a request fails, told from its arguments and the table it
\* began with.
FailsSequence(p) == ~OwnsSequence(proc[p].op.user, proc[p].op.sequenceId)
FailsEntry(p) == TargetBefore(p) = {}
FailsFields(p) == proc[p].op.extra
FailsPose(p) == resolvePoseVersion(proc[p].op.poseId, proc[p].op.poseVersion).error # StoreOk
FailsInsertPosition(p) ==
    proc[p].op.position # UNDEFINED /\ proc[p].op.position > CountBefore(p) + 1
FailsMovePosition(p) ==
    proc[p].op.position # UNDEFINED /\ proc[p].op.position \notin 1..CountBefore(p)

CheckErrors ==
    {"SEQUENCE_NOT_FOUND", "SEQUENCE_POSE_NOT_FOUND", "POSE_NOT_FOUND",
     "POSE_VERSION_NOT_FOUND", "DURATION_AND_INSTRUCTIONS_NOT_SUPPORTED",
     "INVALID_POSITION"}

\* The error of the first check the request fails, in the stated order.
FirstFailure(p) ==
    CASE FailsSequence(p) -> "SEQUENCE_NOT_FOUND"
      [] ~FailsSequence(p) /\ proc[p].op.kind = "insert" ->
            IF FailsPose(p)
            THEN resolvePoseVersion(proc[p].op.poseId, proc[p].op.poseVersion).error
            ELSE IF FailsInsertPosition(p) THEN "INVALID_POSITION" ELSE "none"
      [] ~FailsSequence(p) /\ proc[p].op.kind = "move" ->
            IF FailsEntry(p) THEN "SEQUENCE_POSE_NOT_FOUND"
            ELSE IF FailsFields(p) THEN "DURATION_AND_INSTRUCTIONS_NOT_SUPPORTED"
            ELSE IF FailsMovePosition(p) THEN "INVALID_POSITION" ELSE "none"
      [] OTHER -> IF FailsEntry(p) THEN "SEQUENCE_POSE_NOT_FOUND" ELSE "none"

\* C29: a request that fails several checks reports the first in a fixed
\* order: the sequence, then the entry (Move, Remove) or the pose and its
\* version (Insert), then for a Move the unsupported fields, then the
\* position; a request that fails none reports none of these errors.
C29_ErrorPrecedence ==
    \A p \in Procs :
        ServiceCalled(p)
            => IF FirstFailure(p) # "none"
               THEN proc[p].result = FirstFailure(p)
               ELSE proc[p].result \notin CheckErrors

\* C29 witness: a Move of an entry that is not in the sequence, carrying
\* duration or instructions and a position past the end, has reported the
\* missing entry.
C29_Witness ==
    /\ ServiceCalled(1) /\ proc[1].op.kind = "move"
    /\ ~FailsSequence(1) /\ FailsEntry(1) /\ FailsFields(1) /\ FailsMovePosition(1)
    /\ CountBefore(1) = 2
    /\ proc[1].result = "SEQUENCE_POSE_NOT_FOUND"

\* Request q is a successful Remove of the entry created by the successful
\* Insert p, made right after it.
RemovedRightAfter(p, q) ==
    /\ Succeeded(p) /\ proc[p].op.kind = "insert"
    /\ Succeeded(q) /\ proc[q].op.kind = "remove"
    /\ proc[q].op.sequenceId = proc[p].op.sequenceId
    /\ proc[q].op.sequencePoseId = proc[p].newId
    /\ \E new \in proc[q].pre : new.id = proc[p].newId

\* C30: after a successful Insert at any position 1..N+1 of a dense
\* sequence of N entries, followed at once by a successful Remove of the
\* entry created, the table is as it was before the Insert: the same
\* entries at the same positions.
C30_InsertRemoveRoundTrip ==
    (RemovedRightAfter(1, 2) /\ Dense(proc[1].pre, proc[1].op.sequenceId))
        => sequence_poses = proc[1].pre

\* C30 witness: an entry inserted at position 2 of three entries has been
\* removed again; both requests shifted two entries.
C30_Witness ==
    /\ RemovedRightAfter(1, 2)
    /\ proc[1].op.position = 2 /\ CountBefore(1) = 3
    /\ proc[1].nwrites = 3 /\ proc[2].nwrites = 3
    /\ sequence_poses = proc[1].pre

====
